---- MODULE Spec2Model ----
(***************************************************************************)
(* Health Monitoring Analysis Dashboard (src/app.py, src/app2.py).         *)
(*                                                                         *)
(* Each script is one top-to-bottom run over an uploaded table: read_csv,  *)
(* then the five tabs, all inside a single try block whose handler reports *)
(* the first exception and skips everything after it.  The model follows   *)
(* the run statement group by statement group (pc), keeps the DataFrame    *)
(* as a sequence of rows, and records every element handed to the page in  *)
(* `shown`, in display order.                                              *)
(*                                                                         *)
(* Numbers: every measurement is kept in hundredths (36.65 -> 3665,        *)
(* 100 bpm -> 10000, 6 hours -> 600); ActivityLevel and HormoneImbalance   *)
(* are plain integers.  The inputs have at most two decimals, so the       *)
(* comparisons of the code agree with the integer comparisons here.        *)
(***************************************************************************)
EXTENDS Integers, Sequences, FiniteSets, TLC

VARIABLES app, uploaded_file, df, pc, shown, error,
          overview, summary_stats, corr_matrix,
          key_findings, alerts, activity_metrics,
          activity_filter, hormone_filter, temp_range, filtered_df, csv

vars == <<app, uploaded_file, df, pc, shown, error,
          overview, summary_stats, corr_matrix,
          key_findings, alerts, activity_metrics,
          activity_filter, hormone_filter, temp_range, filtered_df, csv>>

(* Largest number of data rows of an uploaded table. *)
MaxLen == 3

Apps == {"app", "app2"}

(***************************************************************************)
(* The table                                                               *)
(***************************************************************************)
numeric_cols ==
    <<"Thermoregulation", "HeartRateVariation", "BloodOxygen",
      "ActivityLevel", "SleepPatterns", "HormoneImbalance">>

Range(s) == {s[i] : i \in DOMAIN s}

Row(t, hr, o, a, s, h) ==
    [c \in Range(numeric_cols) |->
        CASE c = "Thermoregulation"   -> t
          [] c = "HeartRateVariation" -> hr
          [] c = "BloodOxygen"        -> o
          [] c = "ActivityLevel"      -> a
          [] c = "SleepPatterns"      -> s
          [] c = "HormoneImbalance"   -> h]

(* The sample table both scripts show on their welcome page. *)
sample_data ==
    << Row(3665, 7782, 10047, 0, 305, 1),
       Row(3601, 6088,  9777, 4, 567, 0),
       Row(3657, 6980,  9722, 0, 775, 0) >>

(* Further readings an upload may hold: one above several bounds at once,  *)
(* one sitting exactly on the bounds, one below them, and an otherwise     *)
(* normal one with a hormone code outside 0/1.                             *)
OtherReadings ==
    { Row(3760, 10500, 9400, 1, 700, 0),
      Row(3750, 10000, 9500, 0, 600, 1),
      Row(3590,  5500, 9700, 4, 650, 0),
      Row(3657,  6980, 9722, 0, 775, 2) }

Readings == Range(sample_data) \cup OtherReadings

(* The header rows an upload may have: all six columns, or one missing. *)
Without(c) == SelectSeq(numeric_cols, LAMBDA x : x # c)

Headers == {numeric_cols} \cup {Without(c) : c \in Range(numeric_cols)}

Project(r, header) == [c \in Range(header) |-> r[c]]

Tables(header) ==
    UNION { { [i \in 1..n |-> Project(s[i], header)] : s \in [1..n -> Readings] }
            : n \in 0..MaxLen }

Uploads == UNION { { [columns |-> h, rows |-> t] : t \in Tables(h) } : h \in Headers }

HasColumn(c) == c \in Range(uploaded_file.columns)

(***************************************************************************)
(* Pure parts of the analyses                                              *)
(***************************************************************************)
(* df[df[col] > c], df[df[col] < c], df[df[col] >= c], df[df[col] == c]:   *)
(* boolean-mask selection keeps the rows whose mask is true, in order.     *)
(* Above with the cutoff itself included. *)
Above_Inclusive(d, col, c) == SelectSeq(d, LAMBDA r : r[col] >= c)

Above(d, col, c)   == SelectSeq(d, LAMBDA r : r[col] > c)

(* Below with the comparison turned round. *)
Below_Flipped(d, col, c) == SelectSeq(d, LAMBDA r : r[col] > c)

Below(d, col, c)   == SelectSeq(d, LAMBDA r : r[col] < c)

AtLeast(d, col, c) == SelectSeq(d, LAMBDA r : r[col] >= c)

Equal(d, col, c)   == SelectSeq(d, LAMBDA r : r[col] = c)

Between(d, col, lo, hi) == SelectSeq(d, LAMBDA r : r[col] >= lo /\ r[col] <= hi)

(* (len(part) / len(df)) * 100 as the page prints it with :.1f, in tenths  *)
(* of a percent.  Only called with n > 0: n = 0 raises before any value    *)
(* exists (see KeyFindings).                                               *)
Pct(k, n) == (2000 * k + n) \div (2 * n)

Finding(metric, value) == [metric |-> metric, kind |-> "percent", value |-> value]

KeyFindingsOf(d) ==
    LET temp_normal   == Between(d, "Thermoregulation", 3610, 3720)
        hr_normal     == Between(d, "HeartRateVariation", 6000, 10000)
        oxygen_normal == AtLeast(d, "BloodOxygen", 9500)
        sleep_good    == AtLeast(d, "SleepPatterns", 700)
    IN  << Finding("temp_pct",   Pct(Len(temp_normal), Len(d))),
           Finding("hr_pct",     Pct(Len(hr_normal), Len(d))),
           Finding("oxygen_pct", Pct(Len(oxygen_normal), Len(d))),
           Finding("sleep_pct",  Pct(Len(sleep_good), Len(d))) >>

(* One entry of the alert list. *)
Alert(cond, n) == [cond |-> cond, count |-> n]

(* if len(part) > 0: alerts.append(...) *)
AppendIfAny(list, cond, part) ==
    IF Len(part) > 0 THEN Append(list, Alert(cond, Len(part))) ELSE list

(* HealthAlerts with the elevated-temperature test written >= 37.5. *)
HealthAlerts_InclusiveTempHigh(d) ==
    LET a1 == AppendIfAny(<<>>, "temp_high",      AtLeast(d, "Thermoregulation", 3750))
        a2 == AppendIfAny(a1,   "temp_low",       Below(d, "Thermoregulation", 3600))
        a3 == AppendIfAny(a2,   "hr_high",        Above(d, "HeartRateVariation", 10000))
        a4 == AppendIfAny(a3,   "hr_low",         Below(d, "HeartRateVariation", 6000))
        a5 == AppendIfAny(a4,   "oxygen_low",     Below(d, "BloodOxygen", 9500))
        a6 == AppendIfAny(a5,   "sleep_poor",     Below(d, "SleepPatterns", 600))
        a7 == AppendIfAny(a6,   "hormone_issues", Equal(d, "HormoneImbalance", 1))
    IN  a7

(* HealthAlerts with the sleep bound typed as 5 hours. *)
HealthAlerts_SleepBelowFive(d) ==
    LET a1 == AppendIfAny(<<>>, "temp_high",      Above(d, "Thermoregulation", 3750))
        a2 == AppendIfAny(a1,   "temp_low",       Below(d, "Thermoregulation", 3600))
        a3 == AppendIfAny(a2,   "hr_high",        Above(d, "HeartRateVariation", 10000))
        a4 == AppendIfAny(a3,   "hr_low",         Below(d, "HeartRateVariation", 6000))
        a5 == AppendIfAny(a4,   "oxygen_low",     Below(d, "BloodOxygen", 9500))
        a6 == AppendIfAny(a5,   "sleep_poor",     Below(d, "SleepPatterns", 500))
        a7 == AppendIfAny(a6,   "hormone_issues", Equal(d, "HormoneImbalance", 1))
    IN  a7

(* app.py: the seven selections and appends, top to bottom. *)
HealthAlerts(d) ==
    LET a1 == AppendIfAny(<<>>, "temp_high",      Above(d, "Thermoregulation", 3750))
        a2 == AppendIfAny(a1,   "temp_low",       Below(d, "Thermoregulation", 3600))
        a3 == AppendIfAny(a2,   "hr_high",        Above(d, "HeartRateVariation", 10000))
        a4 == AppendIfAny(a3,   "hr_low",         Below(d, "HeartRateVariation", 6000))
        a5 == AppendIfAny(a4,   "oxygen_low",     Below(d, "BloodOxygen", 9500))
        a6 == AppendIfAny(a5,   "sleep_poor",     Below(d, "SleepPatterns", 600))
        a7 == AppendIfAny(a6,   "hormone_issues", Equal(d, "HormoneImbalance", 1))
    IN  a7

(* app2.py: each condition is selected twice, once for the test and once   *)
(* for the count of the appended tuple.                                    *)
AppendTuple(list, cond, tested, counted) ==
    IF Len(tested) > 0 THEN Append(list, Alert(cond, Len(counted))) ELSE list

(* HealthAlerts2 with the low-heart-rate count copied from the line above  *)
(* it: tested on < 60, counted on > 100.                                   *)
HealthAlerts2_CopiedCount(d) ==
    LET a1 == AppendTuple(<<>>, "temp_high",
                  Above(d, "Thermoregulation", 3750), Above(d, "Thermoregulation", 3750))
        a2 == AppendTuple(a1, "temp_low",
                  Below(d, "Thermoregulation", 3600), Below(d, "Thermoregulation", 3600))
        a3 == AppendTuple(a2, "hr_high",
                  Above(d, "HeartRateVariation", 10000), Above(d, "HeartRateVariation", 10000))
        a4 == AppendTuple(a3, "hr_low",
                  Below(d, "HeartRateVariation", 6000), Above(d, "HeartRateVariation", 10000))
        a5 == AppendTuple(a4, "oxygen_low",
                  Below(d, "BloodOxygen", 9500), Below(d, "BloodOxygen", 9500))
        a6 == AppendTuple(a5, "sleep_poor",
                  Below(d, "SleepPatterns", 600), Below(d, "SleepPatterns", 600))
        a7 == AppendTuple(a6, "hormone_issues",
                  Equal(d, "HormoneImbalance", 1), Equal(d, "HormoneImbalance", 1))
    IN  a7

HealthAlerts2(d) ==
    LET a1 == AppendTuple(<<>>, "temp_high",
                  Above(d, "Thermoregulation", 3750), Above(d, "Thermoregulation", 3750))
        a2 == AppendTuple(a1, "temp_low",
                  Below(d, "Thermoregulation", 3600), Below(d, "Thermoregulation", 3600))
        a3 == AppendTuple(a2, "hr_high",
                  Above(d, "HeartRateVariation", 10000), Above(d, "HeartRateVariation", 10000))
        a4 == AppendTuple(a3, "hr_low",
                  Below(d, "HeartRateVariation", 6000), Below(d, "HeartRateVariation", 6000))
        a5 == AppendTuple(a4, "oxygen_low",
                  Below(d, "BloodOxygen", 9500), Below(d, "BloodOxygen", 9500))
        a6 == AppendTuple(a5, "sleep_poor",
                  Below(d, "SleepPatterns", 600), Below(d, "SleepPatterns", 600))
        a7 == AppendTuple(a6, "hormone_issues",
                  Equal(d, "HormoneImbalance", 1), Equal(d, "HormoneImbalance", 1))
    IN  a7

(* sorted(df[col].unique()) as a set, and as the ascending list. *)
Unique(d, col) == {d[i][col] : i \in DOMAIN d}

RECURSIVE Sorted(_)
Sorted(S) ==
    IF S = {} THEN <<>>
    ELSE LET m == CHOOSE x \in S : \A y \in S : x <= y
         IN  <<m>> \o Sorted(S \ {m})

RECURSIVE Sum(_, _)
Sum(d, col) == IF d = <<>> THEN 0 ELSE d[1][col] + Sum(Tail(d), col)

(* A mean kept exact, as the pair (sum, count) of a non-empty column. *)
Mean(d, col) == [sum |-> Sum(d, col), n |-> Len(d)]

(***************************************************************************)
(* Series statistics.  A statistic is either pandas' NaN or an exact       *)
(* value kept as the integers it is the quotient of; the rounding of the   *)
(* display (.round(2), :.2f) is not applied.                               *)
(***************************************************************************)
NaN == [kind |-> "nan"]

RECURSIVE SumProd(_, _, _)
SumProd(d, a, b) == IF d = <<>> THEN 0 ELSE d[1][a] * d[1][b] + SumProd(Tail(d), a, b)

(* n * sum(xy) - sum(x) * sum(y): n(n-1) times the sample covariance. *)
CoMoment(d, a, b) == Len(d) * SumProd(d, a, b) - Sum(d, a) * Sum(d, b)

(* SeriesMean with the empty series averaged to 0. *)
SeriesMean_ZeroWhenEmpty(d, col) ==
    IF Len(d) = 0 THEN [kind |-> "value", sum |-> 0, n |-> 1]
    ELSE [kind |-> "value", sum |-> Sum(d, col), n |-> Len(d)]

(* df[col].mean(): NaN on an empty column. *)
SeriesMean(d, col) ==
    IF Len(d) = 0 THEN NaN
    ELSE [kind |-> "value", sum |-> Sum(d, col), n |-> Len(d)]

(* df[col].std(), ddof = 1: NaN with fewer than two values; otherwise the  *)
(* square root of moment / (n (n - 1)).                                    *)
SeriesStd(d, col) ==
    IF Len(d) < 2 THEN NaN
    ELSE [kind |-> "value", moment |-> CoMoment(d, col, col), n |-> Len(d)]

(* The values of a column in ascending order. *)
RECURSIVE Insert(_, _)
Insert(x, s) ==
    IF s = <<>> THEN <<x>>
    ELSE IF x <= Head(s) THEN <<x>> \o s
    ELSE <<Head(s)>> \o Insert(x, Tail(s))

RECURSIVE Ascending(_, _)
Ascending(d, col) ==
    IF d = <<>> THEN <<>> ELSE Insert(d[1][col], Ascending(Tail(d), col))

(* The p-th quartile by linear interpolation between order statistics, in  *)
(* quarters of the unit of the column.                                     *)
Quartile(d, col, p) ==
    IF Len(d) = 0 THEN NaN
    ELSE LET x == Ascending(d, col)
             k == ((Len(d) - 1) * p) \div 4
             f == ((Len(d) - 1) * p) % 4
         IN  [kind |-> "value",
              quarters |-> IF f = 0 THEN 4 * x[k + 1]
                           ELSE 4 * x[k + 1] + f * (x[k + 2] - x[k + 1])]

(* df.describe(): per column count, mean, std, min, quartiles, max. *)
Describe(d, header) ==
    [c \in Range(header) |->
        [count |-> Len(d),
         mean  |-> SeriesMean(d, c),
         std   |-> SeriesStd(d, c),
         min   |-> Quartile(d, c, 0),
         p25   |-> Quartile(d, c, 1),
         p50   |-> Quartile(d, c, 2),
         p75   |-> Quartile(d, c, 3),
         max   |-> Quartile(d, c, 4)]]

(* One coefficient of df.corr(): NaN when there are fewer than two rows or *)
(* one of the two columns has no variance (the divisor is 0); otherwise    *)
(* cov / sqrt(var_a * var_b), kept as its three moments.                   *)
Corr(d, a, b) ==
    IF Len(d) < 2 \/ CoMoment(d, a, a) = 0 \/ CoMoment(d, b, b) = 0 THEN NaN
    ELSE [kind |-> "value", cov |-> CoMoment(d, a, b),
          var_a |-> CoMoment(d, a, a), var_b |-> CoMoment(d, b, b)]

(* df[numeric_cols].corr(): the 6 x 6 matrix. *)
CorrMatrix(d) ==
    [a \in Range(numeric_cols) |-> [b \in Range(numeric_cols) |-> Corr(d, a, b)]]

(* The levels of a frame in order of first appearance, as groupby gives    *)
(* them with sort=False.                                                   *)
RECURSIVE FirstSeen(_, _)
FirstSeen(d, col) ==
    IF d = <<>> THEN <<>>
    ELSE LET rest == FirstSeen(SubSeq(d, 1, Len(d) - 1), col)
             v    == d[Len(d)][col]
         IN  IF v \in {rest[i] : i \in DOMAIN rest} THEN rest ELSE Append(rest, v)

(* ActivityMetrics with the groups left in order of first appearance. *)
ActivityMetrics_Unsorted(d) ==
    LET keys == FirstSeen(d, "ActivityLevel")
        grp(k) == SelectSeq(d, LAMBDA r : r["ActivityLevel"] = k)
    IN  [i \in DOMAIN keys |->
            [ActivityLevel      |-> keys[i],
             Thermoregulation   |-> [sum |-> Sum(grp(keys[i]), "Thermoregulation"), n |-> Len(grp(keys[i]))],
             HeartRateVariation |-> [sum |-> Sum(grp(keys[i]), "HeartRateVariation"), n |-> Len(grp(keys[i]))],
             BloodOxygen        |-> [sum |-> Sum(grp(keys[i]), "BloodOxygen"), n |-> Len(grp(keys[i]))],
             SleepPatterns      |-> [sum |-> Sum(grp(keys[i]), "SleepPatterns"), n |-> Len(grp(keys[i]))]]]

(* df.groupby('ActivityLevel').agg({... 'mean'}).reset_index(): one row    *)
(* per observed level, ascending, with the four means of its rows.         *)
ActivityMetrics(d) ==
    LET keys == Sorted(Unique(d, "ActivityLevel"))
        grp(k) == Equal(d, "ActivityLevel", k)
    IN  [i \in DOMAIN keys |->
            [ActivityLevel      |-> keys[i],
             Thermoregulation   |-> Mean(grp(keys[i]), "Thermoregulation"),
             HeartRateVariation |-> Mean(grp(keys[i]), "HeartRateVariation"),
             BloodOxygen        |-> Mean(grp(keys[i]), "BloodOxygen"),
             SleepPatterns      |-> Mean(grp(keys[i]), "SleepPatterns")]]

(* Filter with the lower temperature bound exclusive. *)
Filter_ExclusiveLower(d, activity, hormone, range) ==
    SelectSeq(d, LAMBDA r :
        /\ r["ActivityLevel"] \in activity
        /\ r["HormoneImbalance"] \in hormone
        /\ r["Thermoregulation"] > range[1]
        /\ r["Thermoregulation"] <= range[2])

(* Filter that hands the selected rows back newest first. *)
Filter_Reversed(d, activity, hormone, range) ==
    LET kept == SelectSeq(d, LAMBDA r :
                    /\ r["ActivityLevel"] \in activity
                    /\ r["HormoneImbalance"] \in hormone
                    /\ r["Thermoregulation"] >= range[1]
                    /\ r["Thermoregulation"] <= range[2])
    IN  [i \in DOMAIN kept |-> kept[Len(kept) + 1 - i]]

(* Filter that reads an empty selection as "no filter on that field". *)
Filter_EmptyMeansAll(d, activity, hormone, range) ==
    SelectSeq(d, LAMBDA r :
        /\ (activity = {} \/ r["ActivityLevel"] \in activity)
        /\ (hormone = {} \/ r["HormoneImbalance"] \in hormone)
        /\ r["Thermoregulation"] >= range[1]
        /\ r["Thermoregulation"] <= range[2])

(* Filter that never looks at the last row of the frame it is given. *)
Filter_SkipsLastRow(d, activity, hormone, range) ==
    SelectSeq(IF d = <<>> THEN d ELSE SubSeq(d, 1, Len(d) - 1), LAMBDA r :
        /\ r["ActivityLevel"] \in activity
        /\ r["HormoneImbalance"] \in hormone
        /\ r["Thermoregulation"] >= range[1]
        /\ r["Thermoregulation"] <= range[2])

(* Filter that skips the hormone test when both statuses are selected. *)
Filter_BothMeansAny(d, activity, hormone, range) ==
    SelectSeq(d, LAMBDA r :
        /\ r["ActivityLevel"] \in activity
        /\ (hormone = {0, 1} \/ r["HormoneImbalance"] \in hormone)
        /\ r["Thermoregulation"] >= range[1]
        /\ r["Thermoregulation"] <= range[2])

(* df[isin(activity) & isin(hormone) & (T >= lo) & (T <= hi)] *)
Filter(d, activity, hormone, range) ==
    SelectSeq(d, LAMBDA r :
        /\ r["ActivityLevel"] \in activity
        /\ r["HormoneImbalance"] \in hormone
        /\ r["Thermoregulation"] >= range[1]
        /\ r["Thermoregulation"] <= range[2])

(* filtered_df.to_csv(index=False): the frame's columns in the frame's     *)
(* order as the header, then one line per row, no index column.            *)
ToCsv(header, d) ==
    [header |-> header,
     lines  |-> [i \in DOMAIN d |-> [j \in DOMAIN header |-> d[i][header[j]]]]]

(***************************************************************************)
(* The run                                                                 *)
(***************************************************************************)
Init ==
    /\ app \in Apps
    /\ uploaded_file \in Uploads
    /\ df = <<>>
    /\ pc = "read_csv"
    /\ shown = <<>>
    /\ error = "none"
    /\ overview = <<>>
    /\ summary_stats = <<>>
    /\ corr_matrix = <<>>
    /\ key_findings = <<>>
    /\ alerts = <<>>
    /\ activity_metrics = <<>>
    /\ activity_filter = {}
    /\ hormone_filter = {}
    /\ temp_range = <<0, 0>>
    /\ filtered_df = <<>>
    /\ csv = [header |-> <<>>, lines |-> <<>>]

(* An element of the page that reads one column: [col, out]. *)
Uses(col, out) == [col |-> col, out |-> out]

AllPresent(items) == \A i \in DOMAIN items : HasColumn(items[i].col)

(* The elements displayed before the first df[col] that raises KeyError. *)
RECURSIVE DisplayedBeforeKeyError(_)
DisplayedBeforeKeyError(items) ==
    IF items = <<>> \/ ~HasColumn(Head(items).col) THEN <<>>
    ELSE <<Head(items).out>> \o DisplayedBeforeKeyError(Tail(items))

(* except Exception as e: st.error(...); st.info(...) *)
Raise(kind, displayed) ==
    /\ pc' = "error"
    /\ error' = kind
    /\ shown' = shown \o displayed \o <<"error">>

(* A group of statements that display `items` in order and go on to `next`, *)
(* or stop at the first missing column.                                    *)
Display(items, next) ==
    IF AllPresent(items)
    THEN /\ pc' = next
         /\ error' = error
         /\ shown' = shown \o [i \in DOMAIN items |-> items[i].out]
    ELSE Raise("KeyError", DisplayedBeforeKeyError(items))

Statistics == <<overview, summary_stats, corr_matrix>>

Results == <<key_findings, alerts, activity_metrics,
             activity_filter, hormone_filter, temp_range, filtered_df, csv>>

(* df = pd.read_csv(uploaded_file); st.success("Loaded n records").  The   *)
(* header is not checked against the expected columns.                     *)
ReadCsv ==
    /\ pc = "read_csv"
    /\ df' = uploaded_file.rows
    /\ pc' = "metrics"
    /\ shown' = Append(shown, "loaded")
    /\ UNCHANGED <<app, uploaded_file, error, Statistics, Results>>

(* tab1: the four st.metric / metric-box elements, mean and std each. *)
MetricItems ==
    << Uses("Thermoregulation",   "avg_temperature"),
       Uses("HeartRateVariation", "avg_heart_rate"),
       Uses("BloodOxygen",        "avg_blood_oxygen"),
       Uses("SleepPatterns",      "avg_sleep") >>

(* The mean and std of the columns whose metric was displayed. *)
OverviewOf(d, items) ==
    [c \in {items[i].col : i \in 1..Len(DisplayedBeforeKeyError(items))} |->
        [mean |-> SeriesMean(d, c), std |-> SeriesStd(d, c)]]

Metrics ==
    /\ pc = "metrics"
    /\ Display(MetricItems, "summary")
    /\ overview' = OverviewOf(df, MetricItems)
    /\ UNCHANGED <<app, uploaded_file, df, summary_stats, corr_matrix, Results>>

(* tab1: df.describe().round(2) reads no column by name. *)
Summary ==
    /\ pc = "summary"
    /\ summary_stats' = Describe(df, uploaded_file.columns)
    /\ shown' = Append(shown, "summary_stats")
    /\ pc' = "indicators"
    /\ UNCHANGED <<app, uploaded_file, df, error, overview, corr_matrix, Results>>

(* hormone_labels[i] for i in hormone_counts.index, hormone_labels of      *)
(* length 2: an index outside -2..1 raises IndexError.                     *)
HormoneLabelsOk(d) == \A i \in DOMAIN d : d[i]["HormoneImbalance"] \in -2..1

(* tab1: the activity pie, and in app.py the hormone pie after it. *)
Indicators ==
    /\ pc = "indicators"
    /\ IF app = "app2"
       THEN Display(<< Uses("ActivityLevel", "activity_pie") >>, "tab2")
       ELSE IF AllPresent(<< Uses("ActivityLevel", "activity_pie"),
                             Uses("HormoneImbalance", "hormone_pie") >>)
                 /\ ~HormoneLabelsOk(df)
            THEN Raise("IndexError", <<"activity_pie">>)
            ELSE Display(<< Uses("ActivityLevel", "activity_pie"),
                            Uses("HormoneImbalance", "hormone_pie") >>, "tab2")
    /\ UNCHANGED <<app, uploaded_file, df, Statistics, Results>>

(* tab2: two line charts and two histograms. *)
Tab2 ==
    /\ pc = "tab2"
    /\ Display(<< Uses("Thermoregulation",   "temp_trend"),
                  Uses("HeartRateVariation", "hr_hist"),
                  Uses("BloodOxygen",        "oxygen_hist"),
                  Uses("SleepPatterns",      "sleep_trend") >>, "tab3")
    /\ UNCHANGED <<app, uploaded_file, df, Statistics, Results>>

(* tab3: df[numeric_cols].corr() needs all six columns at once; then the   *)
(* heatmap and the scatter plots (the 3-D one in app.py only).             *)
Tab3 ==
    /\ pc = "tab3"
    /\ IF ~AllPresent([i \in DOMAIN numeric_cols |-> Uses(numeric_cols[i], "corr_matrix")])
       THEN /\ Raise("KeyError", <<>>)
            /\ corr_matrix' = corr_matrix
       ELSE /\ corr_matrix' = CorrMatrix(df)
            /\ pc' = "key_findings"
            /\ error' = error
            /\ shown' = shown \o <<"corr_matrix", "scatter_temp_hr", "scatter_sleep_oxygen">>
                              \o (IF app = "app" THEN <<"scatter_3d">> ELSE <<>>)
    /\ UNCHANGED <<app, uploaded_file, df, overview, summary_stats, Results>>

(* tab4, Key Findings: temp_pct = (len(temp_normal) / len(df)) * 100 is    *)
(* the first statement to divide; with no rows it raises                   *)
(* ZeroDivisionError and nothing of the block is displayed.                *)
KeyFindings ==
    /\ pc = "key_findings"
    /\ IF Len(df) = 0
       THEN /\ Raise("ZeroDivisionError", <<>>)
            /\ key_findings' = key_findings
       ELSE /\ key_findings' = KeyFindingsOf(df)
            /\ pc' = "alerts"
            /\ error' = error
            /\ shown' = shown \o <<"temp_findings", "hr_findings",
                                   "oxygen_findings", "sleep_findings">>
    /\ UNCHANGED <<app, uploaded_file, df, Statistics, alerts, activity_metrics,
                   activity_filter, hormone_filter, temp_range, filtered_df, csv>>

(* tab4, Health Alerts: one st.warning per entry, or the st.success        *)
(* "All readings within healthy ranges!" when the list is empty.           *)
Alerts ==
    /\ pc = "alerts"
    /\ alerts' = IF app = "app" THEN HealthAlerts(df) ELSE HealthAlerts2(df)
    /\ shown' = shown \o (IF alerts' # <<>>
                          THEN [i \in DOMAIN alerts' |-> "warning"]
                          ELSE <<"all_normal">>)
    /\ pc' = IF app = "app" THEN "activity" ELSE "tab5"
    /\ UNCHANGED <<app, uploaded_file, df, error, Statistics, key_findings, activity_metrics,
                   activity_filter, hormone_filter, temp_range, filtered_df, csv>>

(* tab4, Activity Level Impact (app.py only): the grouped means and their  *)
(* four bar charts.                                                        *)
Activity ==
    /\ pc = "activity"
    /\ activity_metrics' = ActivityMetrics(df)
    /\ shown' = Append(shown, "activity_impact")
    /\ pc' = "tab5"
    /\ UNCHANGED <<app, uploaded_file, df, error, Statistics, key_findings, alerts,
                   activity_filter, hormone_filter, temp_range, filtered_df, csv>>

(* Tab5 with the selection assigned back to df (df = df[...]). *)
Tab5_InPlace ==
    /\ pc = "tab5"
    /\ \E af \in SUBSET Unique(df, "ActivityLevel"), hf \in SUBSET {0, 1},
          lo \in Unique(df, "Thermoregulation"), hi \in Unique(df, "Thermoregulation") :
          /\ lo <= hi
          /\ activity_filter' = af
          /\ hormone_filter' = hf
          /\ temp_range' = <<lo, hi>>
          /\ filtered_df' = Filter(df, af, hf, <<lo, hi>>)
    /\ df' = filtered_df'
    /\ csv' = ToCsv(uploaded_file.columns, filtered_df')
    /\ shown' = shown \o <<"showing_count", "filtered_view", "download_csv">>
    /\ pc' = "done"
    /\ UNCHANGED <<app, uploaded_file, error, Statistics, key_findings, alerts, activity_metrics>>

(* tab5: the three controls, whose values the user picks among what the    *)
(* widgets offer (any subset of the observed levels, any subset of [0, 1], *)
(* any lo <= hi between the smallest and the largest temperature), then    *)
(* the selection, the table and the CSV download.                          *)
Tab5 ==
    /\ pc = "tab5"
    /\ \E af \in SUBSET Unique(df, "ActivityLevel"), hf \in SUBSET {0, 1},
          lo \in Unique(df, "Thermoregulation"), hi \in Unique(df, "Thermoregulation") :
          /\ lo <= hi
          /\ activity_filter' = af
          /\ hormone_filter' = hf
          /\ temp_range' = <<lo, hi>>
          /\ filtered_df' = Filter(df, af, hf, <<lo, hi>>)
    /\ csv' = ToCsv(uploaded_file.columns, filtered_df')
    /\ shown' = shown \o <<"showing_count", "filtered_view", "download_csv">>
    /\ pc' = "done"
    /\ UNCHANGED <<app, uploaded_file, df, error, Statistics, key_findings, alerts, activity_metrics>>

Next ==
    \/ ReadCsv
    \/ Metrics
    \/ Summary
    \/ Indicators
    \/ Tab2
    \/ Tab3
    \/ KeyFindings
    \/ Alerts
    \/ Activity
    \/ Tab5

Spec == Init /\ [][Next]_vars

(***************************************************************************)
(* Vocabulary of the properties                                            *)
(***************************************************************************)
CompleteHeader == uploaded_file.columns = numeric_cols

Ended == pc \in {"done", "error"}

(* A Dataset of the data model: all six columns, HormoneImbalance binary. *)
IsDataset(t) ==
    /\ t.columns = numeric_cols
    /\ \A i \in DOMAIN t.rows : t.rows[i]["HormoneImbalance"] \in {0, 1}

(* The Health Alerts block has been evaluated and the run stands between   *)
(* it and the filter of tab5, which leaves df and alerts as they are.      *)
AlertsRan == pc \in {"activity", "tab5"}

(* The filter of tab5 has been applied. *)
FilterRan == pc = "done"

Displayed(out) == out \in Range(shown)

(* The alert table of the specification, in its fixed order. *)
AlertOrder ==
    <<"temp_high", "temp_low", "hr_high", "hr_low",
      "oxygen_low", "sleep_poor", "hormone_issues">>

Matches(cond, r) ==
    CASE cond = "temp_high"      -> r["Thermoregulation"] > 3750
      [] cond = "temp_low"       -> r["Thermoregulation"] < 3600
      [] cond = "hr_high"        -> r["HeartRateVariation"] > 10000
      [] cond = "hr_low"         -> r["HeartRateVariation"] < 6000
      [] cond = "oxygen_low"     -> r["BloodOxygen"] < 9500
      [] cond = "sleep_poor"     -> r["SleepPatterns"] < 600
      [] cond = "hormone_issues" -> r["HormoneImbalance"] = 1

MatchingRows(cond, d) == {i \in DOMAIN d : Matches(cond, d[i])}

Position(cond) == CHOOSE k \in DOMAIN AlertOrder : AlertOrder[k] = cond

NothingMatches(d) == \A k \in DOMAIN AlertOrder : MatchingRows(AlertOrder[k], d) = {}

(* C1: once the alert block has run, a condition has an entry in the list  *)
(* exactly when some row of the whole table matches it, the entry's count  *)
(* is the number of matching rows of the whole table (a row matching       *)
(* several conditions counts in each), and the entries stand in the fixed  *)
(* order of the seven conditions.                                          *)
C1_AlertsFollowTheTable ==
    AlertsRan =>
        /\ \A k \in DOMAIN AlertOrder :
              (\E i \in DOMAIN alerts : alerts[i].cond = AlertOrder[k])
                  <=> MatchingRows(AlertOrder[k], df) # {}
        /\ \A i \in DOMAIN alerts :
              /\ alerts[i].cond \in Range(AlertOrder)
              /\ alerts[i].count = Cardinality(MatchingRows(alerts[i].cond, df))
        /\ \A i, j \in DOMAIN alerts :
              i < j => Position(alerts[i].cond) < Position(alerts[j].cond)

(* All seven conditions fire on one table, one of whose rows matches       *)
(* several of them.                                                        *)
C1_Witness ==
    /\ AlertsRan
    /\ app = "app"
    /\ Len(alerts) = 7
    /\ \E i \in DOMAIN df :
          Cardinality({k \in DOMAIN AlertOrder : Matches(AlertOrder[k], df[i])}) >= 3

(* C2: a run over a table with no rows, or with no row matching any of the *)
(* seven conditions, ends without error, with an empty alert list and the  *)
(* "all normal" message displayed.                                         *)
C2_AllNormalWhenNothingMatches ==
    (Ended /\ IsDataset(uploaded_file) /\ NothingMatches(uploaded_file.rows)) =>
        /\ pc # "error"
        /\ alerts = <<>>
        /\ Displayed("all_normal")

(* C3: a run over a table with no rows ends without error and reports each *)
(* of the four normal-range percentages as an explicit "undefined".        *)
C3_EmptyPercentagesUndefined ==
    (Ended /\ IsDataset(uploaded_file) /\ uploaded_file.rows = <<>>) =>
        /\ pc # "error"
        /\ \A m \in {"temp_pct", "hr_pct", "oxygen_pct", "sleep_pct"} :
              \E i \in DOMAIN key_findings :
                  key_findings[i].metric = m /\ key_findings[i].kind = "undefined"

(* The predicate of the specification's filter, written on one row. *)
Satisfies(r, A, H, lo, hi) ==
    /\ r["ActivityLevel"] \in A
    /\ r["HormoneImbalance"] \in H
    /\ lo <= r["Thermoregulation"]
    /\ r["Thermoregulation"] <= hi

Occurrences(r, d) == Cardinality({i \in DOMAIN d : d[i] = r})

(* C4: after filtering, every row of the source that satisfies the three   *)
(* predicates (level allowed, hormone status allowed, lo <= temperature    *)
(* <= hi) is in the filtered table as many times as in the source, and no  *)
(* other row is in it at all.                                              *)
C4_FilterKeepsExactlyTheMatches ==
    FilterRan =>
        /\ \A i \in DOMAIN filtered_df : filtered_df[i] \in Range(df)
        /\ \A i \in DOMAIN df :
              Occurrences(df[i], filtered_df) =
                  IF Satisfies(df[i], activity_filter, hormone_filter,
                               temp_range[1], temp_range[2])
                  THEN Occurrences(df[i], df)
                  ELSE 0

(* A filter that keeps a row sitting on each bound of a proper range and   *)
(* drops another row.                                                      *)
C4_Witness ==
    /\ FilterRan
    /\ temp_range[1] < temp_range[2]
    /\ \E i \in DOMAIN filtered_df : filtered_df[i]["Thermoregulation"] = temp_range[1]
    /\ \E i \in DOMAIN filtered_df : filtered_df[i]["Thermoregulation"] = temp_range[2]
    /\ Len(filtered_df) < Len(df)

(* s is t with some elements left out, the others in t's order. *)
RECURSIVE IsSubsequence(_, _)
IsSubsequence(s, t) ==
    IF s = <<>> THEN TRUE
    ELSE IF t = <<>> THEN FALSE
    ELSE IF Head(s) = Head(t) THEN IsSubsequence(Tail(s), Tail(t))
    ELSE IsSubsequence(s, Tail(t))

(* C5: the filtered table is a subsequence of the source: surviving rows   *)
(* keep the relative order they have in the source.                        *)
C5_FilterKeepsOrder == FilterRan => IsSubsequence(filtered_df, df)

(* Two different rows survive and a row between or around them is dropped. *)
C5_Witness ==
    /\ FilterRan
    /\ Len(filtered_df) = 2
    /\ filtered_df[1] # filtered_df[2]
    /\ Len(df) = 3

(* C6: with an empty set of allowed activity levels, or an empty set of    *)
(* allowed hormone statuses, the filtered table is empty.                  *)
C6_EmptySelectionSelectsNothing ==
    (FilterRan /\ (activity_filter = {} \/ hormone_filter = {})) => filtered_df = <<>>

(* An empty activity selection over rows that pass the two other tests. *)
C6_Witness ==
    /\ FilterRan
    /\ activity_filter = {}
    /\ \E i \in DOMAIN df :
          /\ df[i]["HormoneImbalance"] \in hormone_filter
          /\ temp_range[1] <= df[i]["Thermoregulation"]
          /\ df[i]["Thermoregulation"] <= temp_range[2]

(* C7: filtering the filtered table again with the same three settings     *)
(* gives the filtered table back, same rows in the same order.             *)
C7_FilterIdempotent ==
    FilterRan =>
        Filter(filtered_df, activity_filter, hormone_filter, temp_range) = filtered_df

(* A filter that kept some rows and dropped others. *)
C7_Witness ==
    /\ FilterRan
    /\ Len(filtered_df) >= 2
    /\ Len(filtered_df) < Len(df)

(* The elements that carry no analysis: the load message and the error     *)
(* report.                                                                 *)
NotAnalysis == {"loaded", "error"}

(* C8: for an upload that lacks a required column nothing but the load     *)
(* message and the error report is ever displayed, and the run never       *)
(* completes.                                                              *)
C8_NoAnalysisOutputOnMissingColumn ==
    ~CompleteHeader =>
        /\ pc # "done"
        /\ \A i \in DOMAIN shown : shown[i] \in NotAnalysis

SleepAlertCount(n) == \E i \in DOMAIN alerts : alerts[i] = Alert("sleep_poor", n)

(* C9 as stated: on the sample table the insufficient-sleep alert has      *)
(* count 1.                                                                *)
C9_SampleSleepCountIsOne == (AlertsRan /\ df = sample_data) => SleepAlertCount(1)

(* C9: on the sample table the insufficient-sleep alert has count 2, the   *)
(* matching rows being the 3.05 h and the 5.67 h readings.                 *)
C9_SampleSleepCountIsTwo ==
    (AlertsRan /\ df = sample_data) =>
        /\ SleepAlertCount(2)
        /\ {df[i]["SleepPatterns"] : i \in MatchingRows("sleep_poor", df)} = {305, 567}

C9_Witness == AlertsRan /\ df = sample_data /\ Len(alerts) = 2

(* C10: whatever the Dataset and however the other analyses ended, a run   *)
(* over it ends with every analysis having produced its                    *)
(* result: summary statistics, correlation matrix, key findings, alerts,   *)
(* (in app.py) the activity aggregation, and the filtered view.            *)
C10_EveryAnalysisProducesItsResult ==
    (Ended /\ IsDataset(uploaded_file)) =>
        /\ Displayed("summary_stats")
        /\ Displayed("corr_matrix")
        /\ Displayed("temp_findings")
        /\ (Displayed("warning") \/ Displayed("all_normal"))
        /\ (app = "app" => Displayed("activity_impact"))
        /\ Displayed("filtered_view")

(* The Activity Level Impact block of app.py has just been evaluated. *)
ActivityRan == app = "app" /\ pc = "tab5"

GroupRows(level) == {j \in DOMAIN df : df[j]["ActivityLevel"] = level}

RECURSIVE Total(_, _)
Total(rows, col) ==
    IF rows = {} THEN 0
    ELSE LET j == CHOOSE x \in rows : TRUE
         IN  df[j][col] + Total(rows \ {j}, col)

MeanColumns == {"Thermoregulation", "HeartRateVariation", "BloodOxygen", "SleepPatterns"}

(* C11: the aggregation has one group per activity level that occurs in    *)
(* the table and no other, the groups stand in ascending order of level,   *)
(* and each of a group's four values is the mean (sum over count) of that  *)
(* column over exactly the rows of the group; a group of one row carries   *)
(* that row's own values.                                                  *)
C11_GroupsFollowTheData ==
    ActivityRan =>
        /\ {activity_metrics[i].ActivityLevel : i \in DOMAIN activity_metrics}
              = {df[j]["ActivityLevel"] : j \in DOMAIN df}
        /\ \A i, k \in DOMAIN activity_metrics :
              i < k => activity_metrics[i].ActivityLevel < activity_metrics[k].ActivityLevel
        /\ \A i \in DOMAIN activity_metrics : \A c \in MeanColumns :
              LET rows == GroupRows(activity_metrics[i].ActivityLevel)
              IN  /\ activity_metrics[i][c].n = Cardinality(rows)
                  /\ activity_metrics[i][c].sum = Total(rows, c)
                  /\ (\E j \in DOMAIN df : rows = {j}) =>
                        \E j \in rows : activity_metrics[i][c].sum = df[j][c]

(* A table whose first row has a higher level than a later one, with one   *)
(* group of two rows and one of a single row.                              *)
C11_Witness ==
    /\ ActivityRan
    /\ Len(activity_metrics) = 2
    /\ df[1]["ActivityLevel"] > df[2]["ActivityLevel"]
    /\ \E i \in DOMAIN activity_metrics : activity_metrics[i]["Thermoregulation"].n = 1
    /\ \E i \in DOMAIN activity_metrics : activity_metrics[i]["Thermoregulation"].n = 2

(***************************************************************************)
(* Uploads whose six columns come in another order                         *)
(***************************************************************************)
(* A header with the six required columns, the two categorical ones first. *)
reordered_cols ==
    <<"HormoneImbalance", "ActivityLevel", "Thermoregulation",
      "HeartRateVariation", "BloodOxygen", "SleepPatterns">>

UploadsAnyOrder ==
    UNION { { [columns |-> h, rows |-> t] : t \in Tables(h) }
            : h \in {numeric_cols, reordered_cols} }

InitAnyOrder ==
    /\ app \in Apps
    /\ uploaded_file \in UploadsAnyOrder
    /\ df = <<>>
    /\ pc = "read_csv"
    /\ shown = <<>>
    /\ error = "none"
    /\ overview = <<>>
    /\ summary_stats = <<>>
    /\ corr_matrix = <<>>
    /\ key_findings = <<>>
    /\ alerts = <<>>
    /\ activity_metrics = <<>>
    /\ activity_filter = {}
    /\ hormone_filter = {}
    /\ temp_range = <<0, 0>>
    /\ filtered_df = <<>>
    /\ csv = [header |-> <<>>, lines |-> <<>>]

SpecAnyOrder == InitAnyOrder /\ [][Next]_vars

(* C12: the CSV of the filtered table is one header row naming the six     *)
(* columns in the canonical order, whatever the order of the upload's      *)
(* header, followed by one line per filtered row, in the filtered order,   *)
(* each line holding the six values in that order and nothing else (no     *)
(* index column).                                                          *)
C12_CsvInCanonicalOrder ==
    FilterRan =>
        /\ csv.header = numeric_cols
        /\ Len(csv.lines) = Len(filtered_df)
        /\ \A i \in DOMAIN csv.lines :
              csv.lines[i] = [j \in DOMAIN numeric_cols |-> filtered_df[i][numeric_cols[j]]]

(***************************************************************************)
(* The alert counts as a function of the cutoffs                           *)
(***************************************************************************)
(* The six literals of the Health Alerts block. *)
Thresholds ==
    [temp_high |-> 3750, temp_low |-> 3600, hr_high |-> 10000,
     hr_low |-> 6000, oxygen_low |-> 9500, sleep_poor |-> 600]

(* len(df[df[col] > c]), len(df[df[col] < c]), len(df[... == 1]): the      *)
(* seven counts the block takes, with its literals replaced by `cut`.      *)
AlertCountsAt(d, cut) ==
    [temp_high      |-> Len(Above(d, "Thermoregulation", cut.temp_high)),
     temp_low       |-> Len(Below(d, "Thermoregulation", cut.temp_low)),
     hr_high        |-> Len(Above(d, "HeartRateVariation", cut.hr_high)),
     hr_low         |-> Len(Below(d, "HeartRateVariation", cut.hr_low)),
     oxygen_low     |-> Len(Below(d, "BloodOxygen", cut.oxygen_low)),
     sleep_poor     |-> Len(Below(d, "SleepPatterns", cut.sleep_poor)),
     hormone_issues |-> Len(Equal(d, "HormoneImbalance", 1))]

(* The count the alert list carries for a condition, 0 when it has no entry. *)
ListedCount(cond) ==
    IF \E i \in DOMAIN alerts : alerts[i].cond = cond
    THEN (CHOOSE a \in Range(alerts) : a.cond = cond).count
    ELSE 0

BelowAlerts == {"temp_low", "hr_low", "oxygen_low", "sleep_poor"}

AboveAlerts == {"temp_high", "hr_high"}

(* By how much a cutoff is relaxed: 0.01, 1 and 2.5 units. *)
Relaxations == {1, 100, 250}

Relaxed(cond, by) ==
    [Thresholds EXCEPT ![cond] = IF cond \in BelowAlerts THEN @ + by ELSE @ - by]

(* C13: the counts in the alert list are the counts at the code's cutoffs, *)
(* and relaxing one cutoff (raising that of a "value < c" alert, lowering  *)
(* that of a "value > c" alert) never lowers that alert's count and leaves *)
(* the six other counts as they are.                                       *)
C13_CountsMonotoneInCutoff ==
    AlertsRan =>
        /\ \A k \in DOMAIN AlertOrder :
              ListedCount(AlertOrder[k]) = AlertCountsAt(df, Thresholds)[AlertOrder[k]]
        /\ \A cond \in BelowAlerts \cup AboveAlerts : \A by \in Relaxations :
              LET relaxed == AlertCountsAt(df, Relaxed(cond, by))
              IN  /\ relaxed[cond] >= ListedCount(cond)
                  /\ \A k \in DOMAIN AlertOrder :
                        AlertOrder[k] # cond =>
                            relaxed[AlertOrder[k]] = ListedCount(AlertOrder[k])

(* Raising the low-oxygen cutoff from 95 to 96 adds a match, and lowering  *)
(* the high-heart-rate cutoff from 100 to 99 adds one too.                 *)
C13_Witness ==
    /\ AlertsRan
    /\ AlertCountsAt(df, Relaxed("oxygen_low", 100)).oxygen_low > ListedCount("oxygen_low")
    /\ ListedCount("oxygen_low") > 0
    /\ AlertCountsAt(df, Relaxed("hr_high", 100)).hr_high > ListedCount("hr_high")

(* C14: from ingestion on, through every analysis, the filter and the CSV, *)
(* the source table holds the rows read from the upload, in their order;   *)
(* the filtered view is a value of its own, so a filter that drops rows    *)
(* leaves the source as long as it was.                                    *)
C14_SourceNeverMutated ==
    pc # "read_csv" =>
        /\ df = uploaded_file.rows
        /\ Len(filtered_df) <= Len(df)

(* Every analysis has run and the filter has dropped some rows and kept    *)
(* others.                                                                 *)
C14_Witness ==
    /\ pc = "done"
    /\ app = "app"
    /\ Len(filtered_df) > 0
    /\ Len(filtered_df) < Len(df)
    /\ Len(csv.lines) = Len(filtered_df)

(* The correlation matrix has been computed and handed to the heatmap. *)
CorrRan == Displayed("corr_matrix")

(* All values of a column are the same (also when there is none or one). *)
Constant(d, col) == \A i, j \in DOMAIN d : d[i][col] = d[j][col]

(* C15: in the matrix handed to the heatmap for a Dataset of at least one  *)
(* row, every coefficient in the row and the column of a column without    *)
(* variance is the explicit marker "undefined", and with fewer than two    *)
(* rows every entry is that marker; no such entry is a bare NaN.           *)
C15_UndefinedCorrelationIsMarked ==
    (CorrRan /\ IsDataset(uploaded_file) /\ Len(df) >= 1) =>
        \A a, b \in Range(numeric_cols) :
            (Len(df) < 2 \/ Constant(df, a) \/ Constant(df, b)) =>
                corr_matrix[a][b].kind = "undefined"

(* The statistics of tab1 (the four metrics, then describe()) have run. *)
StatsRan == pc \notin {"read_csv", "metrics", "summary"}

OtherScriptAlerts(d) == IF app = "app" THEN HealthAlerts2(d) ELSE HealthAlerts(d)

(* C17: the alert list a script has built is, entry by entry (condition    *)
(* and count), the list the other script builds on the same table; and     *)
(* over a Dataset either script ends having shown "all readings within     *)
(* healthy ranges" exactly when the table has rows and none matches a      *)
(* condition, and having shown warnings exactly when some row matches.     *)
C17_ScriptsAgreeOnAlerts ==
    /\ AlertsRan =>
          /\ Len(alerts) = Len(OtherScriptAlerts(df))
          /\ \A i \in DOMAIN alerts :
                /\ alerts[i].cond = OtherScriptAlerts(df)[i].cond
                /\ alerts[i].count = OtherScriptAlerts(df)[i].count
    /\ ((AlertsRan \/ pc = "error") /\ IsDataset(uploaded_file)) =>
          /\ Displayed("all_normal") <=>
                (uploaded_file.rows # <<>> /\ NothingMatches(uploaded_file.rows))
          /\ Displayed("warning") <=> ~NothingMatches(uploaded_file.rows)

(* app2.py has listed several alerts over a Dataset. *)
C17_Witness ==
    /\ AlertsRan
    /\ app = "app2"
    /\ IsDataset(uploaded_file)
    /\ Len(alerts) >= 4
    /\ \E i \in DOMAIN alerts : alerts[i].count >= 2

(* The three controls of tab5 stand as the scripts preset them: every      *)
(* observed level, both hormone statuses, the full temperature span.       *)
DefaultControls ==
    /\ activity_filter = {df[i]["ActivityLevel"] : i \in DOMAIN df}
    /\ hormone_filter = {0, 1}
    /\ \A i \in DOMAIN df :
          temp_range[1] <= df[i]["Thermoregulation"] /\ df[i]["Thermoregulation"] <= temp_range[2]

BinaryHormone(r) == r["HormoneImbalance"] \in {0, 1}

(* C18: with the preset controls the filtered table is the source without  *)
(* the rows whose hormone code is neither 0 nor 1, in source order: the    *)
(* whole source when every code is 0 or 1, and never a row with another    *)
(* code.                                                                   *)
C18_DefaultFilterKeepsBinaryRows ==
    (FilterRan /\ DefaultControls) =>
        /\ filtered_df = SelectSeq(df, BinaryHormone)
        /\ (\A i \in DOMAIN df : BinaryHormone(df[i])) => filtered_df = df
        /\ \A i \in DOMAIN filtered_df : BinaryHormone(filtered_df[i])

(* The preset controls over a table with a row of hormone code 2 among     *)
(* rows of codes 0 and 1.                                                  *)
C18_Witness ==
    /\ FilterRan
    /\ DefaultControls
    /\ \E i \in DOMAIN df : ~BinaryHormone(df[i])
    /\ Len(filtered_df) = 2
    /\ Len(df) = 3

(* The preset controls over a Dataset of several rows. *)
C18_WitnessWhole ==
    /\ FilterRan
    /\ DefaultControls
    /\ app = "app"
    /\ Len(df) = 3
    /\ filtered_df = df

(* The rows the Key Findings block counts as normal. *)
temp_normal == Between(df, "Thermoregulation", 3610, 3720)

hr_normal == Between(df, "HeartRateVariation", 6000, 10000)

Disjoint(a, b) == Range(a) \cap Range(b) = {}

(* C19: the normal, elevated and low temperature selections are pairwise   *)
(* disjoint and their counts add up to at most the number of rows; the     *)
(* normal, high and low heart-rate selections are pairwise disjoint and    *)
(* their counts add up to exactly the number of rows.  The normal counts   *)
(* are the ones behind the displayed percentages, the others the ones in   *)
(* the alert list.                                                         *)
C19_TemperatureAndHeartRateCounts ==
    AlertsRan =>
        /\ key_findings[1].value = Pct(Len(temp_normal), Len(df))
        /\ key_findings[2].value = Pct(Len(hr_normal), Len(df))
        /\ Disjoint(temp_normal, Above(df, "Thermoregulation", Thresholds.temp_high))
        /\ Disjoint(temp_normal, Below(df, "Thermoregulation", Thresholds.temp_low))
        /\ Disjoint(Above(df, "Thermoregulation", Thresholds.temp_high),
                    Below(df, "Thermoregulation", Thresholds.temp_low))
        /\ Len(temp_normal) + ListedCount("temp_high") + ListedCount("temp_low") <= Len(df)
        /\ Disjoint(hr_normal, Above(df, "HeartRateVariation", Thresholds.hr_high))
        /\ Disjoint(hr_normal, Below(df, "HeartRateVariation", Thresholds.hr_low))
        /\ Disjoint(Above(df, "HeartRateVariation", Thresholds.hr_high),
                    Below(df, "HeartRateVariation", Thresholds.hr_low))
        /\ Len(hr_normal) + ListedCount("hr_high") + ListedCount("hr_low") = Len(df)

(* A table with a temperature in neither class (36.01 or 37.50), an        *)
(* elevated one, and heart rates on the boundary 100 and above it.         *)
C19_Witness ==
    /\ AlertsRan
    /\ Len(temp_normal) + ListedCount("temp_high") + ListedCount("temp_low") < Len(df)
    /\ ListedCount("temp_high") >= 1
    /\ ListedCount("hr_high") >= 1
    /\ \E i \in DOMAIN hr_normal : hr_normal[i]["HeartRateVariation"] = 10000

====
